---- MODULE Spec2Model ----
(***************************************************************************)
(* A model of the routing core of damas_maps: the data model built by      *)
(* build_data_model, the routing model solve_vrp registers with the        *)
(* constraint solver, and the route extraction of get_routes               *)
(* (src/solve_vrp.py).  The constraint solver itself is a library: a call  *)
(* of SolveWithParameters is a choice among "no solution" and the          *)
(* assignments that satisfy every constraint solve_vrp registered.         *)
(* ServerSpec puts the three around the request handlers of src/app.py     *)
(* and their cache _LAST_SOLVE; RaceSpec follows an export handler read by *)
(* read while another thread replaces the cache.                           *)
(***************************************************************************)
EXTENDS Integers, Sequences, FiniteSets, TLC

VARIABLES
    stops,      \* List[Stop]: location -> [demand, service_min, tw]
    vehicles,   \* List[Vehicle]: vehicle -> [capacity, start_index, end_index, max_route_min]
    table,      \* the OSRM /table durations, in seconds
    data,       \* the dict build_data_model returns, None before it has run
    solution,   \* the assignment SolveWithParameters returned, None for none
    routes,     \* the list get_routes returns
    pc,         \* where the run is
    request,    \* the JSON request being handled by the server, None outside it
    _LAST_SOLVE,  \* the server's cache of the latest successful solve
    response,   \* what the server answered to the last request it finished
    received,   \* how many requests the server has taken in
    api_solve_succeeded,  \* history: some /api/solve request was answered 200
    matrix_calls  \* the OSRM /table requests made for the current run

vars == <<stops, vehicles, table, data, solution, routes, pc,
          request, _LAST_SOLVE, response, received, api_solve_succeeded,
          matrix_calls>>

serverVars == <<request, _LAST_SOLVE, response, received, api_solve_succeeded>>

\* Python's Optional: None is the empty tuple, a present value x is <<x>>.
None == <<>>
Some(x) == <<x>>
Get(o) == o[1]

(***************************************************************************)
(* Bounds of the model.                                                    *)
(***************************************************************************)
MaxDemand == 2
MaxCapacity == 2

Locations == {0, 1, 2}
AnchorChoices == {0, 2}
VehicleCounts == {1, 2}
SecondsChoices == {30, 90}
WindowChoices == {None, Some(<<1, 2>>)}
ServiceChoices == {0, 5}
MaxRouteMinChoices == {None, Some(0), Some(3), Some(8)}
SpeedFactorChoices == {1, 2}
LateWindowChoices == {None, Some(<<4, 4>>), Some(<<1438, 1438>>)}

(***************************************************************************)
(* Domain models and the data model.                                       *)
(***************************************************************************)
Stop(demand, tw, service_min) ==
    [demand |-> demand, tw |-> tw, service_min |-> service_min]

\* speed_factor: float = 1.0 unless the caller gives one
Vehicle(capacity, start_index, end_index, max_route_min) ==
    [capacity |-> capacity, start_index |-> start_index,
     end_index |-> end_index, max_route_min |-> max_route_min,
     speed_factor |-> 1]

WithSpeedFactor(v, speed_factor) == [v EXCEPT !.speed_factor = speed_factor]

horizon == 1440

Max(a, b) == IF a >= b THEN a ELSE b
Min(a, b) == IF a <= b THEN a ELSE b

\* int(round(c / 60.0)): Python 3 rounds a half to the even neighbour.
RoundDiv60(c) ==
    LET q == c \div 60
        r == c % 60
    IN  IF r < 30 THEN q
        ELSE IF r > 30 THEN q + 1
        ELSE IF q % 2 = 0 THEN q ELSE q + 1

SecondsToMinutes(c) == IF c = None THEN 0 ELSE RoundDiv60(Get(c))

VehicleIds(vs) == DOMAIN vs

\* max_route_min = [v.max_route_min if v.max_route_min else 24*60 ...]
EffectiveMaxRouteMin(v) ==
    IF v.max_route_min # None /\ Get(v.max_route_min) # 0
    THEN Get(v.max_route_min) ELSE horizon

\* ends = [v.end_index if v.end_index is not None else v.start_index ...]
EffectiveEnd(v) == IF v.end_index # None THEN Get(v.end_index) ELSE v.start_index

\* time_windows = [s.tw if s.tw else default_tw ...], default_tw = (0, 24*60)
EffectiveWindow(s) == IF s.tw # None THEN Get(s.tw) ELSE <<0, horizon>>

DataModel(ss, vs, tab) ==
    [duration_matrix_min |-> [i \in Locations |-> [j \in Locations |->
                                  SecondsToMinutes(tab[i][j])]],
     demands |-> [i \in Locations |-> ss[i].demand],
     service_min |-> [i \in Locations |-> ss[i].service_min],
     time_windows |-> [i \in Locations |-> EffectiveWindow(ss[i])],
     vehicle_capacities |-> [v \in VehicleIds(vs) |-> vs[v].capacity],
     vehicle_starts |-> [v \in VehicleIds(vs) |-> vs[v].start_index],
     vehicle_ends |-> [v \in VehicleIds(vs) |-> EffectiveEnd(vs[v])],
     vehicle_max_route_min |-> [v \in VehicleIds(vs) |-> EffectiveMaxRouteMin(vs[v])],
     stops |-> ss,
     vehicles |-> vs]

(***************************************************************************)
(* The inputs: two families, one varying demands, capacities and the       *)
(* vehicles' start and end locations, one varying service times, time      *)
(* windows, travel times and maximum route durations.                      *)
(***************************************************************************)
UniformTable(c) ==
    [i \in Locations |-> [j \in Locations |-> IF i = j THEN Some(0) ELSE Some(c)]]

SymmetricTable(a, b, c) ==
    [i \in Locations |-> [j \in Locations |->
        IF i = j THEN Some(0)
        ELSE IF {i, j} = {0, 1} THEN Some(a)
        ELSE IF {i, j} = {0, 2} THEN Some(b)
        ELSE Some(c)]]

FleetChoices ==
    LET One == {Vehicle(c, s, e, None) :
                    c \in 1..MaxCapacity, s \in AnchorChoices,
                    e \in {None} \cup {Some(a) : a \in AnchorChoices}}
    IN  UNION {[0..(n - 1) -> One] : n \in VehicleCounts}

InitAssignment ==
    /\ \E d1 \in 0..MaxDemand, d2 \in 0..MaxDemand :
         stops = [i \in Locations |->
                    IF i = 0 THEN Stop(0, None, 0)
                    ELSE Stop(IF i = 1 THEN d1 ELSE d2, None, 5)]
    /\ vehicles \in FleetChoices
    /\ table = UniformTable(60)

InitTiming ==
    /\ \E s0 \in {0, 1}, s \in ServiceChoices, w0 \in {None, Some(<<0, 3>>)},
          w1 \in WindowChoices, w2 \in LateWindowChoices :
         stops = [i \in Locations |->
                    IF i = 0 THEN Stop(0, w0, s0)
                    ELSE IF i = 1 THEN Stop(1, w1, s)
                    ELSE Stop(1, w2, s)]
    /\ \E m \in MaxRouteMinChoices, f \in SpeedFactorChoices :
         vehicles = [v \in {0} |-> WithSpeedFactor(Vehicle(2, 0, None, m), f)]
    /\ \E a \in SecondsChoices, b \in SecondsChoices, c \in SecondsChoices :
         table = SymmetricTable(a, b, c)

Init ==
    /\ InitAssignment \/ InitTiming
    /\ data = None
    /\ solution = None
    /\ routes = <<>>
    /\ pc = "start"
    /\ request = None
    /\ _LAST_SOLVE = None
    /\ response = None
    /\ received = 0
    /\ api_solve_succeeded = FALSE
    /\ matrix_calls = 0

(***************************************************************************)
(* RoutingIndexManager(n, num_vehicles, starts, ends): a location that is  *)
(* some vehicle's start, or no vehicle's end, has an index of its own;     *)
(* every further vehicle starting at a location already used as a start    *)
(* gets a fresh start index; every vehicle gets its own end index.  A      *)
(* location that is only an end has no index (NodeToIndex gives -1).       *)
(***************************************************************************)
RECURSIVE Ascending(_)
Ascending(S) ==
    IF S = {} THEN <<>>
    ELSE LET least == CHOOSE x \in S : \A y \in S : x <= y
         IN  <<least>> \o Ascending(S \ {least})

Range(seq) == {seq[k] : k \in DOMAIN seq}

RoutingIndexManager(d) ==
    LET nv == Cardinality(DOMAIN d.vehicle_capacities)
        vs == 0..(nv - 1)
        starts == {d.vehicle_starts[v] : v \in vs}
        ends == {d.vehicle_ends[v] : v \in vs}
        own == Ascending({node \in Locations : node \in starts \/ node \notin ends})
        later == Ascending({v \in vs : \E u \in vs :
                              u < v /\ d.vehicle_starts[u] = d.vehicle_starts[v]})
        size == Len(own) + Len(later)
    IN  [data |-> d,
         num_vehicles |-> nv,
         size |-> size,
         own_nodes |-> own,
         later_starters |-> later,
         index_to_node |->
             own \o [k \in DOMAIN later |-> d.vehicle_starts[later[k]]]
                 \o [k \in 1..nv |-> d.vehicle_ends[k - 1]]]

Vehicles(m) == 0..(m.num_vehicles - 1)

Indices(m) == 0..(m.size + m.num_vehicles - 1)

IndexToNode(m, index) == m.index_to_node[index + 1]

NodeToIndex(m, node) ==
    IF node \in Range(m.own_nodes)
    THEN (CHOOSE k \in DOMAIN m.own_nodes : m.own_nodes[k] = node) - 1
    ELSE -1

Start(m, v) ==
    IF v \in Range(m.later_starters)
    THEN Len(m.own_nodes) - 1
             + (CHOOSE k \in DOMAIN m.later_starters : m.later_starters[k] = v)
    ELSE NodeToIndex(m, m.data.vehicle_starts[v])

End(m, v) == m.size + v

IsEnd(m, index) == index >= m.size

IsStart(m, index) == \E v \in Vehicles(m) : Start(m, v) = index

\* the indices every solution has to visit: neither a start nor an end
VisitIndices(m) == {i \in 0..(m.size - 1) : ~IsStart(m, i)}

(***************************************************************************)
(* The callbacks solve_vrp registers.                                      *)
(***************************************************************************)
\* a time callback that leaves the service time out
time_callback_travel_only(m, from_index, to_index) ==
    LET from_node == IndexToNode(m, from_index)
        to_node == IndexToNode(m, to_index)
    IN  m.data.duration_matrix_min[from_node][to_node]

\* a time callback that charges the service time of the node entered
time_callback_service_on_arrival(m, from_index, to_index) ==
    LET from_node == IndexToNode(m, from_index)
        to_node == IndexToNode(m, to_index)
    IN  m.data.duration_matrix_min[from_node][to_node] + m.data.service_min[to_node]

\* time_callback: travel time plus the service time of the node left
time_callback(m, from_index, to_index) ==
    LET from_node == IndexToNode(m, from_index)
        to_node == IndexToNode(m, to_index)
    IN  m.data.duration_matrix_min[from_node][to_node] + m.data.service_min[from_node]

demand_callback(m, from_index) == m.data.demands[IndexToNode(m, from_index)]

\* an arc cost that charges the service time of the node entered
ArcCostChargingDestination(m, from_index, to_index) ==
    time_callback_service_on_arrival(m, from_index, to_index)

\* SetArcCostEvaluatorOfAllVehicles(transit_cb_idx): the cost of an arc is
\* what time_callback returns for it
ArcCost(m, from_index, to_index) == time_callback(m, from_index, to_index)

\* the cost of the arcs from `index` to the end of its route
RECURSIVE RouteCost(_, _, _)
RouteCost(m, sol, index) ==
    IF IsEnd(m, index) THEN 0
    ELSE ArcCost(m, index, sol.next[index]) + RouteCost(m, sol, sol.next[index])

\* the objective of an assignment: the arc costs of the vehicles that leave
\* their start for a stop (no fixed costs, no penalties are set)
RECURSIVE CostFrom(_, _, _)
CostFrom(m, sol, v) ==
    IF v >= m.num_vehicles THEN 0
    ELSE (IF IsEnd(m, sol.next[Start(m, v)]) THEN 0
          ELSE RouteCost(m, sol, Start(m, v)))
         + CostFrom(m, sol, v + 1)

ObjectiveValue(m, sol) == CostFrom(m, sol, 0)

(***************************************************************************)
(* The routing model of solve_vrp.  A candidate assignment gives every     *)
(* vehicle the sequence of indices it visits between its start and its     *)
(* end (the NextVar values) and every index a value of the Time cumul      *)
(* variable.                                                               *)
(***************************************************************************)
RECURSIVE Arrangements(_)
Arrangements(S) ==
    {<<>>} \cup UNION {{<<x>> \o t : t \in Arrangements(S \ {x})} : x \in S}

Chain(m, v, visits) == <<Start(m, v)>> \o visits \o <<End(m, v)>>

\* RoutingModel(manager) with no disjunction added: every index that is not
\* a start or an end lies on exactly one vehicle's path, once.
RoutePlans(m) ==
    LET visit == VisitIndices(m)
    IN  {p \in [Vehicles(m) -> Arrangements(visit)] :
            \A i \in visit :
                Cardinality({v \in Vehicles(m) : i \in Range(p[v])}) = 1}

\* a capacity dimension with one capacity for the whole fleet, the largest
CapacityOkOneLimit(m, next) ==
    \A v \in Vehicles(m) :
        LET load[i \in Indices(m)] ==
                IF i = Start(m, v) THEN 0
                ELSE LET prev == CHOOSE j \in 0..(m.size - 1) : next[j] = i
                     IN  load[prev] + demand_callback(m, prev)
            OnPath[i \in Indices(m)] ==
                i = End(m, v) \/ (~IsEnd(m, i) /\ OnPath[next[i]])
        IN  \A i \in Indices(m) :
                OnPath[i] => /\ 0 <= load[i]
                             /\ \E u \in Vehicles(m) :
                                   load[i] <= m.data.vehicle_capacities[u]

\* AddDimensionWithVehicleCapacity(demand_cb_idx, 0, capacities, True,
\* "Capacity"): the cumul starts at zero, grows by the demand of the index
\* left, has no slack and stays within [0, capacity] at every index.
CapacityOk(m, next) ==
    \A v \in Vehicles(m) :
        LET load[i \in Indices(m)] ==
                IF i = Start(m, v) THEN 0
                ELSE LET prev == CHOOSE j \in 0..(m.size - 1) : next[j] = i
                     IN  load[prev] + demand_callback(m, prev)
            OnPath[i \in Indices(m)] ==
                i = End(m, v) \/ (~IsEnd(m, i) /\ OnPath[next[i]])
        IN  \A i \in Indices(m) :
                OnPath[i] => 0 <= load[i] /\ load[i] <= m.data.vehicle_capacities[v]

\* AddDimension(time_cb_idx, horizon, horizon, False, "Time"): every cumul
\* lies in [0, horizon] and grows along an arc by the transit plus a slack
\* in [0, horizon].
TimeDimensionOk(m, next, t) ==
    /\ \A i \in Indices(m) : 0 <= t[i] /\ t[i] <= horizon
    /\ \A i \in 0..(m.size - 1) :
          LET slack == t[next[i]] - t[i] - time_callback(m, i, next[i])
          IN  0 <= slack /\ slack <= horizon

InRange(x, w) == w[1] <= x /\ x <= w[2]

\* time windows set on the vehicles' start and end cumuls only
TimeWindowsOkAnchorsOnly(m, t) ==
    \A v \in Vehicles(m) :
        /\ InRange(t[Start(m, v)], m.data.time_windows[m.data.vehicle_starts[v]])
        /\ InRange(t[End(m, v)], m.data.time_windows[m.data.vehicle_ends[v]])

\* time windows that bound every cumul from above only
TimeWindowsOkCloseOnly(m, t) ==
    /\ \A node \in Locations :
          t[NodeToIndex(m, node)] <= m.data.time_windows[node][2]
    /\ \A v \in Vehicles(m) :
          /\ t[Start(m, v)] <= m.data.time_windows[m.data.vehicle_starts[v]][2]
          /\ t[End(m, v)] <= m.data.time_windows[m.data.vehicle_ends[v]][2]

\* the per-node SetRange loop and the per-vehicle SetRange of the start and
\* end cumuls
TimeWindowsOk(m, t) ==
    /\ \A node \in Locations :
          InRange(t[NodeToIndex(m, node)], m.data.time_windows[node])
    /\ \A v \in Vehicles(m) :
          /\ InRange(t[Start(m, v)], m.data.time_windows[m.data.vehicle_starts[v]])
          /\ InRange(t[End(m, v)], m.data.time_windows[m.data.vehicle_ends[v]])

\* CumulVar(end_index) <= CumulVar(start_index) + limit, for every vehicle
MaxRouteDurationOk(m, t) ==
    \A v \in Vehicles(m) :
        t[End(m, v)] <= t[Start(m, v)] + m.data.vehicle_max_route_min[v]

\* the routing model without its Capacity dimension
SatisfiesWithoutCapacity(m, next, t) ==
    /\ TimeDimensionOk(m, next, t)
    /\ TimeWindowsOk(m, t)
    /\ MaxRouteDurationOk(m, t)

Satisfies(m, next, t) ==
    /\ CapacityOk(m, next)
    /\ TimeDimensionOk(m, next, t)
    /\ TimeWindowsOk(m, t)
    /\ MaxRouteDurationOk(m, t)

(***************************************************************************)
(* The assignments the model lets the solver return.  Along one path the   *)
(* Time cumuls are the earliest schedule from the start's opening time,    *)
(* the latest schedule, or the earliest schedule from the latest start.    *)
(* The last of the three satisfies the time constraints of the path        *)
(* whenever any schedule does, so a path has a schedule here exactly when  *)
(* the constraints allow one.                                              *)
(***************************************************************************)
WindowOfIndex(m, i) == m.data.time_windows[IndexToNode(m, i)]

Earliest(m, c, s) ==
    LET f[k \in DOMAIN c] ==
            IF k = 1 THEN s
            ELSE Max(WindowOfIndex(m, c[k])[1],
                     f[k - 1] + time_callback(m, c[k - 1], c[k]))
    IN  [k \in DOMAIN c |-> f[k]]

Latest(m, c) ==
    LET n == Len(c)
        g[j \in 0..(n - 1)] ==
            LET k == n - j
                close == Min(WindowOfIndex(m, c[k])[2], horizon)
            IN  IF j = 0 THEN close
                ELSE Min(close, g[j - 1] - time_callback(m, c[k], c[k + 1]))
    IN  [k \in DOMAIN c |-> g[n - k]]

PathSchedules(m, c) ==
    LET late == Latest(m, c)
    IN  {Earliest(m, c, Max(WindowOfIndex(m, c[1])[1], 0)),
         Earliest(m, c, late[1]),
         late}

\* the paths of vehicles v, v+1, ... of plan p, each with one schedule
RECURSIVE ScheduledPaths(_, _, _)
ScheduledPaths(m, p, v) ==
    IF v >= m.num_vehicles THEN {<<>>}
    ELSE LET c == Chain(m, v, p[v])
             here == PathSchedules(m, c)
             rest == ScheduledPaths(m, p, v + 1)
         IN  {<<[path |-> c, cumul |-> s]>> \o r : s \in here, r \in rest}

\* NextVar and the Time CumulVar of every index, from the scheduled paths
Assignment(m, sp) ==
    LET Place(i) ==
            CHOOSE x \in {<<v, k>> : v \in DOMAIN sp, k \in 1..(Len(m.index_to_node))} :
                x[2] \in DOMAIN sp[x[1]].path /\ sp[x[1]].path[x[2]] = i
    IN  [next |-> [i \in 0..(m.size - 1) |->
                      LET x == Place(i) IN sp[x[1]].path[x[2] + 1]],
         time |-> [i \in Indices(m) |->
                      LET x == Place(i) IN sp[x[1]].cumul[x[2]]]]

Candidates(m) ==
    UNION {{Assignment(m, sp) : sp \in ScheduledPaths(m, p, 0)} : p \in RoutePlans(m)}

\* what routing.SolveWithParameters(search_params) may return besides None
Solutions(m) == {a \in Candidates(m) : Satisfies(m, a.next, a.time)}

\* a build_data_model whose matrix request is tried a second time
BuildDataModelRetrying ==
    /\ pc = "start"
    /\ \/ /\ data' = Some(DataModel(stops, vehicles, table))
          /\ pc' = "built"
       \/ /\ data' = None
          /\ pc' = IF matrix_calls = 0 THEN "start" ELSE "unavailable"
    /\ matrix_calls' = matrix_calls + 1
    /\ UNCHANGED <<stops, vehicles, table, solution, routes, serverVars>>

(***************************************************************************)
(* build_data_model: the matrix request either fails (the exception        *)
(* leaves build_data_model) or the data model is built.                    *)
(***************************************************************************)
BuildDataModel ==
    /\ pc = "start"
    /\ \/ /\ data' = Some(DataModel(stops, vehicles, table))
          /\ pc' = "built"
       \/ /\ data' = None
          /\ pc' = "unavailable"
    /\ matrix_calls' = matrix_calls + 1
    /\ UNCHANGED <<stops, vehicles, table, solution, routes, serverVars>>

(***************************************************************************)
(* solve_vrp.  The per-node SetRange loop calls CumulVar(NodeToIndex(node))*)
(* for every location.  For a location that is only a vehicle's end the    *)
(* index is -1: CumulVar(-1) reads the word in front of the array of cumul *)
(* variables and SetRange is a virtual call through that word, so the run  *)
(* dies in the loop and solve_vrp returns nothing.  A negative start or end *)
(* fails a CHECK in the constructor of RoutingIndexManager, which aborts   *)
(* the process.  Otherwise the solver returns None or an assignment that   *)
(* satisfies the registered constraints.                                   *)
(***************************************************************************)
HasUnindexedNode(m) == \E node \in Locations : NodeToIndex(m, node) = -1

HasNegativeDepot(d) ==
    \E v \in DOMAIN d.vehicle_starts : d.vehicle_starts[v] < 0 \/ d.vehicle_ends[v] < 0

SolveVrp ==
    /\ pc = "built"
    /\ IF HasNegativeDepot(Get(data))
       THEN /\ solution' = None
            /\ pc' = "crashed"
       ELSE LET manager == RoutingIndexManager(Get(data))
            IN  \/ /\ ~HasUnindexedNode(manager)
                   /\ solution' \in {None} \cup {Some(s) : s \in Solutions(manager)}
                   /\ pc' = "solved"
                \/ /\ HasUnindexedNode(manager)
                   /\ solution' = None
                   /\ pc' = "crashed"
    /\ UNCHANGED <<stops, vehicles, table, data, routes, serverVars, matrix_calls>>

(***************************************************************************)
(* get_routes, called by every caller only when a solution was returned.   *)
(***************************************************************************)
RECURSIVE WalkPlan(_, _, _)
WalkPlan(m, sol, index) ==
    LET here == <<IndexToNode(m, index), sol.time[index]>>
    IN  IF IsEnd(m, index) THEN <<here>>
        ELSE <<here>> \o WalkPlan(m, sol, sol.next[index])

\* a loop over the vehicles without the test for an unused vehicle
RECURSIVE RoutesFromEvery(_, _, _)
RoutesFromEvery(m, sol, v) ==
    IF v >= m.num_vehicles THEN <<>>
    ELSE <<<<v, WalkPlan(m, sol, Start(m, v))>>>> \o RoutesFromEvery(m, sol, v + 1)

RECURSIVE RoutesFrom(_, _, _)
RoutesFrom(m, sol, v) ==
    IF v >= m.num_vehicles THEN <<>>
    ELSE IF IsEnd(m, sol.next[Start(m, v)]) THEN RoutesFrom(m, sol, v + 1)
    ELSE <<<<v, WalkPlan(m, sol, Start(m, v))>>>> \o RoutesFrom(m, sol, v + 1)

\* a loop over the vehicles that starts at the second one
get_routes_from_second(m, sol) == RoutesFrom(m, sol, 1)

get_routes(m, sol) == RoutesFrom(m, sol, 0)

GetRoutes ==
    /\ pc = "solved"
    /\ solution # None
    /\ routes' = get_routes(RoutingIndexManager(Get(data)), Get(solution))
    /\ pc' = "extracted"
    /\ UNCHANGED <<stops, vehicles, table, data, solution, serverVars, matrix_calls>>

Next == BuildDataModel \/ SolveVrp \/ GetRoutes

Spec == Init /\ [][Next]_vars

(***************************************************************************)
(* The server of app.py.  A request is the JSON body: in a raw stop or     *)
(* vehicle an absent field is None.  Coordinates are in units of 1e-7      *)
(* degree.                                                                 *)
(***************************************************************************)
RawStop(lat, demand, service_min, tw_start, tw_end) ==
    [lat |-> lat, demand |-> demand, service_min |-> service_min,
     tw_start |-> tw_start, tw_end |-> tw_end]

RawVehicle(capacity, start_index, end_index, max_route_min, speed_factor) ==
    [capacity |-> capacity, start_index |-> start_index, end_index |-> end_index,
     max_route_min |-> max_route_min, speed_factor |-> speed_factor]

OrDefault(o, default) == IF o = None THEN default ELSE Get(o)

\* _parse_stop: None stands for the ValueError it raises
_parse_stop(raw, is_depot) ==
    LET demand == OrDefault(raw.demand, IF is_depot THEN 0 ELSE 1)
        service_min == OrDefault(raw.service_min, IF is_depot THEN 0 ELSE 5)
        has_tw == raw.tw_start # None /\ raw.tw_end # None
    IN  IF has_tw /\ Get(raw.tw_end) < Get(raw.tw_start) THEN None
        ELSE Some([lat |-> raw.lat,
                   demand |-> Max(demand, 0),
                   tw |-> IF has_tw THEN Some(<<Get(raw.tw_start), Get(raw.tw_end)>>)
                          ELSE None,
                   service_min |-> Max(service_min, 0)])

\* a vehicle parser that keeps the capacity as given
_parse_vehicle_unclamped(raw, default_capacity) ==
    WithSpeedFactor(Vehicle(OrDefault(raw.capacity, default_capacity),
                            OrDefault(raw.start_index, 0),
                            raw.end_index,
                            raw.max_route_min),
                    OrDefault(raw.speed_factor, 1))

_parse_vehicle(raw, default_capacity) ==
    WithSpeedFactor(Vehicle(Max(OrDefault(raw.capacity, default_capacity), 1),
                            OrDefault(raw.start_index, 0),
                            raw.end_index,
                            raw.max_route_min),
                    OrDefault(raw.speed_factor, 1))

\* round(float(s.lat), 6), on coordinates in units of 1e-7 degree
RoundMicro(lat) ==
    LET q == lat \div 10
        r == lat % 10
    IN  IF r < 5 THEN q
        ELSE IF r > 5 THEN q + 1
        ELSE IF q % 2 = 0 THEN q ELSE q + 1

\* a key that leaves the vehicles out
_canonical_key_stops_only(ss, vs) ==
    [stops |-> [i \in DOMAIN ss |->
                   [lat |-> RoundMicro(ss[i].lat), demand |-> ss[i].demand,
                    service_min |-> ss[i].service_min, tw |-> ss[i].tw]]]

\* the serialised stops and vehicles; names and longitudes, the same in
\* every request body tried, are left out
_canonical_key(ss, vs) ==
    [stops |-> [i \in DOMAIN ss |->
                   [lat |-> RoundMicro(ss[i].lat), demand |-> ss[i].demand,
                    service_min |-> ss[i].service_min, tw |-> ss[i].tw]],
     vehicles |-> [v \in DOMAIN vs |->
                   [capacity |-> vs[v].capacity, start_index |-> vs[v].start_index,
                    end_index |-> vs[v].end_index,
                    max_route_min |-> vs[v].max_route_min,
                    speed_factor |-> vs[v].speed_factor]]]

\* to_geojson(routes, data): one feature per route
to_geojson(rs, d) == [features |-> [r \in DOMAIN rs |-> rs[r][1]]]

\* the stops and the vehicles the three solving handlers parse from a body
ParsedStops(body) == [i \in DOMAIN body.stops |-> _parse_stop(body.stops[i], i = 0)]

RECURSIVE SumParsedDemand(_, _)
SumParsedDemand(ps, S) ==
    IF S = {} THEN 0
    ELSE LET k == CHOOSE x \in S : TRUE
         IN  Get(ps[k]).demand + SumParsedDemand(ps, S \ {k})

ParsedVehicles(body, total_demand) ==
    IF body.vehicles = None
    THEN [v \in {0} |-> Vehicle(Max(total_demand, 1), 0, None, Some(8 * 60))]
    ELSE [v \in 0..(Len(Get(body.vehicles)) - 1) |->
             _parse_vehicle(Get(body.vehicles)[v + 1], Max(total_demand, 1))]

IndexOutOfRange(ss, vs) ==
    \E v \in DOMAIN vs :
        \/ vs[v].start_index \notin DOMAIN ss
        \/ vs[v].end_index # None /\ Get(vs[v].end_index) \notin DOMAIN ss

(***************************************************************************)
(* The request bodies tried: a depot and two stops, the first stop at one  *)
(* of two latitudes that differ below the sixth decimal, and either no     *)
(* "vehicles" field or one vehicle.                                        *)
(***************************************************************************)
LatChoices == {0, 4}
RawCapacityChoices == {Some(0), Some(2)}
RawStartChoices == {Some(0), Some(-1)}
RawMaxRouteMinChoices == {None, Some(3)}
RequestRounds == {1, 2}

RawVehicleLists ==
    {None} \cup {Some(<<RawVehicle(c, s, None, m, None)>>) :
                    c \in RawCapacityChoices, s \in RawStartChoices,
                    m \in RawMaxRouteMinChoices}

\* a body whose second stop has a time window that ends before it starts
MalformedBody ==
    [stops |-> [i \in Locations |->
                   IF i = 0 THEN RawStop(0, None, None, None, None)
                   ELSE IF i = 1 THEN RawStop(0, None, Some(0), None, None)
                   ELSE RawStop(20, Some(0), Some(0), Some(5), Some(3))],
     vehicles |-> None]

\* the body of a GET request
NoBody == [stops |-> <<>>, vehicles |-> None]

Bodies ==
    {MalformedBody} \cup
    {[stops |-> [i \in Locations |->
                    IF i = 0 THEN RawStop(0, None, None, None, None)
                    ELSE IF i = 1 THEN RawStop(lat, None, Some(0), None, None)
                    ELSE RawStop(20, Some(0), Some(0), None, None)],
      vehicles |-> vs] : lat \in LatChoices, vs \in RawVehicleLists}

Idle ==
    /\ stops = <<>>
    /\ vehicles = <<>>
    /\ table = <<>>
    /\ data = None
    /\ solution = None
    /\ routes = <<>>
    /\ matrix_calls = 0

ServerInit ==
    /\ Idle
    /\ pc = "idle"
    /\ request = None
    /\ _LAST_SOLVE = None
    /\ response = None
    /\ received = 0
    /\ api_solve_succeeded = FALSE

\* the handler's locals go when it returns
Return(answer) ==
    /\ response' = Some(answer)
    /\ pc' = "idle"
    /\ stops' = <<>>
    /\ vehicles' = <<>>
    /\ table' = <<>>
    /\ data' = None
    /\ solution' = None
    /\ routes' = <<>>
    /\ matrix_calls' = 0

\* the common head of the three handlers: the body is parsed
Parse(op, body) ==
    /\ pc = "idle"
    /\ received < Cardinality(RequestRounds)
    /\ received' = received + 1
    /\ request' = Some([op |-> op, body |-> body])
    /\ UNCHANGED api_solve_succeeded

Parsed(body) ==
    LET ps == ParsedStops(body)
        ss == [i \in DOMAIN ps |-> Get(ps[i])]
    IN  [stops |-> ss,
         vehicles |-> ParsedVehicles(body, SumParsedDemand(ps, DOMAIN ps))]

\* build_data_model is about to be called with the parsed stops and vehicles
StartRun(p) ==
    /\ stops' = p.stops
    /\ vehicles' = p.vehicles
    /\ table' = UniformTable(60)
    /\ pc' = "start"
    /\ UNCHANGED <<data, solution, routes, matrix_calls, response, _LAST_SOLVE>>

\* api_solve up to the call of build_data_model
ApiSolve ==
    \E body \in Bodies :
        /\ Parse("api_solve", body)
        /\ IF \E i \in DOMAIN body.stops : ParsedStops(body)[i] = None
           THEN Return([status |-> 400]) /\ UNCHANGED _LAST_SOLVE
           ELSE LET p == Parsed(body)
                IN  IF IndexOutOfRange(p.stops, p.vehicles)
                    THEN Return([status |-> 400]) /\ UNCHANGED _LAST_SOLVE
                    ELSE StartRun(p)

CacheHit(key) == _LAST_SOLVE # None /\ Get(_LAST_SOLVE).key = key

\* the two export handlers up to the cache test: on a hit the cached data
\* and routes are taken, otherwise build_data_model is about to be called
Export(op, body) ==
        /\ Parse(op, body)
        /\ IF \E i \in DOMAIN body.stops : ParsedStops(body)[i] = None
           THEN Return([status |-> 400]) /\ UNCHANGED _LAST_SOLVE
           ELSE LET p == Parsed(body)
                IN  IF CacheHit(_canonical_key(p.stops, p.vehicles))
                    THEN /\ stops' = p.stops
                         /\ vehicles' = p.vehicles
                         /\ data' = Some(Get(_LAST_SOLVE).data)
                         /\ routes' = Get(_LAST_SOLVE).routes
                         /\ pc' = "cached"
                         /\ UNCHANGED <<table, solution, matrix_calls, response, _LAST_SOLVE>>
                    ELSE StartRun(p)

ApiExportAssignments ==
    \E body \in Bodies : Export("api_export_assignments", body)

ApiExportKmlzip ==
    \E body \in Bodies : Export("api_export_kmlzip", body)

\* except requests.RequestException: ... 503
RespondUnavailable ==
    /\ request # None
    /\ pc = "unavailable"
    /\ Return([status |-> 503])
    /\ UNCHANGED <<request, received, _LAST_SOLVE, api_solve_succeeded>>

\* an answer to an infeasible run that writes the cache first
RespondInfeasibleCaching ==
    /\ request # None
    /\ pc = "solved"
    /\ solution = None
    /\ _LAST_SOLVE' = Some([key |-> _canonical_key(stops, vehicles), routes |-> routes,
                            data |-> Get(data), geojson |-> None])
    /\ Return([status |-> 422])
    /\ UNCHANGED <<request, received, api_solve_succeeded>>

\* if solution is None: ... 422
RespondInfeasible ==
    /\ request # None
    /\ pc = "solved"
    /\ solution = None
    /\ Return([status |-> 422])
    /\ UNCHANGED <<request, received, _LAST_SOLVE, api_solve_succeeded>>

Served(cached) ==
    [status |-> 200, cached |-> cached, routes |-> routes, data |-> Get(data)]

CacheEntry(geojson) ==
    [key |-> _canonical_key(stops, vehicles), routes |-> routes,
     data |-> Get(data), geojson |-> geojson]

\* api_solve after get_routes: the polylines may fail, the cache is written
ApiSolveRespond ==
    /\ request # None
    /\ Get(request).op = "api_solve"
    /\ pc = "extracted"
    /\ \E geojson \in {None, Some(to_geojson(routes, Get(data)))} :
          _LAST_SOLVE' = Some(CacheEntry(geojson))
    /\ Return(Served(FALSE))
    /\ api_solve_succeeded' = TRUE
    /\ UNCHANGED <<request, received>>

\* api_export_assignments after the cache test or get_routes
ApiExportAssignmentsRespond ==
    /\ request # None
    /\ Get(request).op = "api_export_assignments"
    /\ \/ /\ pc = "cached"
          /\ Return(Served(TRUE))
          /\ UNCHANGED _LAST_SOLVE
       \/ /\ pc = "extracted"
          /\ _LAST_SOLVE' = Some(CacheEntry(None))
          /\ Return(Served(FALSE))
    /\ UNCHANGED <<request, received, api_solve_succeeded>>

\* api_export_kmlzip after the cache test or get_routes: a fresh solve is
\* not cached; missing polylines are fetched, and stored when the cache
\* holds this request's key
ApiExportKmlzipRespond ==
    /\ request # None
    /\ Get(request).op = "api_export_kmlzip"
    /\ pc \in {"cached", "extracted"}
    /\ LET gj == IF pc = "cached" THEN Get(_LAST_SOLVE).geojson ELSE None
       IN  IF gj # None
           THEN Return(Served(TRUE)) /\ UNCHANGED _LAST_SOLVE
           ELSE \/ /\ Return([status |-> 502])
                   /\ UNCHANGED _LAST_SOLVE
                \/ /\ _LAST_SOLVE' =
                          IF CacheHit(_canonical_key(stops, vehicles))
                          THEN Some([Get(_LAST_SOLVE) EXCEPT
                                        !.geojson = Some(to_geojson(routes, Get(data)))])
                          ELSE _LAST_SOLVE
                   /\ Return(Served(pc = "cached"))
    /\ UNCHANGED <<request, received, api_solve_succeeded>>

\* map_latest: 404 unless the cache holds a geojson, else the page with it
MapLatest ==
    /\ Parse("map_latest", NoBody)
    /\ IF _LAST_SOLVE = None \/ Get(_LAST_SOLVE).geojson = None
       THEN Return([status |-> 404])
       ELSE Return([status |-> 200, geojson |-> Get(Get(_LAST_SOLVE).geojson)])
    /\ UNCHANGED _LAST_SOLVE

ServerNext ==
    \/ ApiSolve
    \/ ApiExportAssignments
    \/ ApiExportKmlzip
    \/ BuildDataModel
    \/ SolveVrp
    \/ GetRoutes
    \/ RespondUnavailable
    \/ RespondInfeasible
    \/ ApiSolveRespond
    \/ ApiExportAssignmentsRespond
    \/ ApiExportKmlzipRespond
    \/ MapLatest

ServerSpec == ServerInit /\ [][ServerNext]_vars

(***************************************************************************)
(* The server under concurrent requests (app.run starts the threaded       *)
(* development server).  One handler is followed step by step: an export   *)
(* on the cache-hit path tests _LAST_SOLVE.get("key"), then reads          *)
(* _LAST_SOLVE["data"], then _LAST_SOLVE["routes"], each time through the  *)
(* global.  Of a second request, handled by another thread meanwhile, only *)
(* its one effect on the first is kept: the assignment to _LAST_SOLVE at   *)
(* the end of a successful api_solve.                                      *)
(***************************************************************************)
\* the export handlers up to the key comparison
CompareKey(op, body) ==
        /\ Parse(op, body)
        /\ IF \E i \in DOMAIN body.stops : ParsedStops(body)[i] = None
           THEN Return([status |-> 400]) /\ UNCHANGED _LAST_SOLVE
           ELSE LET p == Parsed(body)
                IN  IF CacheHit(_canonical_key(p.stops, p.vehicles))
                    THEN /\ stops' = p.stops
                         /\ vehicles' = p.vehicles
                         /\ pc' = "hit"
                         /\ UNCHANGED <<table, data, solution, routes, matrix_calls,
                                        response, _LAST_SOLVE>>
                    ELSE StartRun(p)

ApiExportAssignmentsCompareKey ==
    \E body \in Bodies : CompareKey("api_export_assignments", body)

ApiExportKmlzipCompareKey ==
    \E body \in Bodies : CompareKey("api_export_kmlzip", body)

\* data = _LAST_SOLVE["data"]
ReadCachedData ==
    /\ pc = "hit"
    /\ data' = Some(Get(_LAST_SOLVE).data)
    /\ pc' = "hit_data"
    /\ UNCHANGED <<stops, vehicles, table, solution, routes, serverVars, matrix_calls>>

\* routes = _LAST_SOLVE["routes"]
ReadCachedRoutes ==
    /\ pc = "hit_data"
    /\ routes' = Get(_LAST_SOLVE).routes
    /\ pc' = "cached"
    /\ UNCHANGED <<stops, vehicles, table, data, solution, serverVars, matrix_calls>>

\* the bodies of the api_solve requests of the other thread
ConcurrentBodies == {body \in Bodies : body.vehicles = None /\ body # MalformedBody}

\* what a successful api_solve of the other thread may assign to _LAST_SOLVE
ConcurrentEntries ==
    UNION {LET p == Parsed(body)
               d == DataModel(p.stops, p.vehicles, UniformTable(60))
               manager == RoutingIndexManager(d)
           IN  {[key |-> _canonical_key(p.stops, p.vehicles),
                 routes |-> get_routes(manager, sol),
                 data |-> d,
                 geojson |-> Some(to_geojson(get_routes(manager, sol), d))] :
                    sol \in Solutions(manager)} : body \in ConcurrentBodies}

\* the other thread's api_solve reaches its assignment to _LAST_SOLVE while
\* this handler is between its key comparison and its last read
ConcurrentSolveWritesCache ==
    /\ pc \in {"hit", "hit_data"}
    /\ \E entry \in ConcurrentEntries :
          /\ Some(entry) # _LAST_SOLVE
          /\ _LAST_SOLVE' = Some(entry)
    /\ UNCHANGED <<stops, vehicles, table, data, solution, routes, pc,
                   request, response, received, api_solve_succeeded, matrix_calls>>

RaceNext ==
    \/ ApiSolve
    \/ ApiExportAssignmentsCompareKey
    \/ ApiExportKmlzipCompareKey
    \/ ReadCachedData
    \/ ReadCachedRoutes
    \/ ConcurrentSolveWritesCache
    \/ BuildDataModel
    \/ SolveVrp
    \/ GetRoutes
    \/ RespondUnavailable
    \/ RespondInfeasible
    \/ ApiSolveRespond
    \/ ApiExportAssignmentsRespond
    \/ ApiExportKmlzipRespond

RaceSpec == ServerInit /\ [][RaceNext]_vars

(***************************************************************************)
(* What the claims speak about: the inputs and the returned routes.        *)
(***************************************************************************)
Returned == pc = "extracted"

SolveReturned == pc = "solved" \/ pc = "extracted"

Infeasible == solution = None

\* the locations some vehicle starts or ends at
AnchorLocations ==
    {vehicles[v].start_index : v \in DOMAIN vehicles}
        \cup {EffectiveEnd(vehicles[v]) : v \in DOMAIN vehicles}

\* the stops the solver has to place: not the depot, not a vehicle's anchor
PlacedStops == (Locations \ {0}) \ AnchorLocations

RouteVehicle(r) == routes[r][1]
RoutePlan(r) == routes[r][2]
PlanNode(r, j) == routes[r][2][j][1]
PlanArrival(r, j) == routes[r][2][j][2]

\* how often location k is listed in the returned routes
Occurrences(k) ==
    Cardinality({x \in UNION {{<<r, j>> : j \in DOMAIN RoutePlan(r)} : r \in DOMAIN routes} :
                    PlanNode(x[1], x[2]) = k})

RECURSIVE SumDemand(_)
SumDemand(S) ==
    IF S = {} THEN 0
    ELSE LET k == CHOOSE x \in S : TRUE
         IN  stops[k].demand + SumDemand(S \ {k})

\* the demand of the locations among the first j nodes of route r
PrefixDemand(r, j) == SumDemand({PlanNode(r, i) : i \in 1..j})

\* C1 as stated: in every returned result each non-depot stop is listed
\* exactly once over all routes.
C1_EveryNonDepotStopOnce ==
    Returned => \A k \in Locations \ {0} : Occurrences(k) = 1

\* C1, amended: in every returned result each non-depot stop that is no
\* vehicle's start or end location is listed exactly once over all routes.
C1_EveryPlacedStopOnce ==
    Returned => \A k \in PlacedStops : Occurrences(k) = 1

C1_Witness ==
    /\ Returned
    /\ PlacedStops = {1, 2}
    /\ Len(routes) = 2

\* C2 as stated: in every returned route the demands of every prefix of the
\* route sum to at most the capacity of the route's vehicle.
C2_EveryPrefixWithinCapacity ==
    Returned =>
        \A r \in DOMAIN routes : \A j \in DOMAIN RoutePlan(r) :
            PrefixDemand(r, j) <= vehicles[RouteVehicle(r)].capacity

\* C2, amended: in every returned route the demands of every prefix that
\* stops before the route's end node sum to at most the capacity of the
\* route's vehicle (the demand of the end node is not counted).
C2_PrefixBeforeEndWithinCapacity ==
    Returned =>
        \A r \in DOMAIN routes : \A j \in 1..(Len(RoutePlan(r)) - 1) :
            PrefixDemand(r, j) <= vehicles[RouteVehicle(r)].capacity

C2_Witness ==
    /\ Returned
    /\ \E r \in DOMAIN routes :
          /\ Len(RoutePlan(r)) = 4
          /\ stops[PlanNode(r, 2)].demand > 0
          /\ stops[PlanNode(r, 3)].demand > 0
          /\ PrefixDemand(r, 3) = vehicles[RouteVehicle(r)].capacity

\* C3: in every returned route every arrival, the start's and the end's
\* included, lies in the window of its node, and along every leg p -> q
\* arrival(q) >= arrival(p) + service(p) + duration[p][q].
C3_TimeWindowsAndPrecedence ==
    Returned =>
        \A r \in DOMAIN routes :
            /\ \A j \in DOMAIN RoutePlan(r) :
                  InRange(PlanArrival(r, j), EffectiveWindow(stops[PlanNode(r, j)]))
            /\ \A j \in 1..(Len(RoutePlan(r)) - 1) :
                  PlanArrival(r, j + 1) >=
                      PlanArrival(r, j) + stops[PlanNode(r, j)].service_min
                          + SecondsToMinutes(table[PlanNode(r, j)][PlanNode(r, j + 1)])

\* a returned route that waits for a window to open and leaves a node with
\* a service time
C3_Witness ==
    /\ Returned
    /\ \E r \in DOMAIN routes : \E j \in 1..(Len(RoutePlan(r)) - 1) :
          /\ stops[PlanNode(r, j)].service_min > 0
          /\ stops[PlanNode(r, j + 1)].tw # None
          /\ PlanArrival(r, j + 1) >
                 PlanArrival(r, j) + stops[PlanNode(r, j)].service_min
                     + SecondsToMinutes(table[PlanNode(r, j)][PlanNode(r, j + 1)])

\* C4 as stated: in every returned route the arrival at the end minus the
\* arrival at the start is at most the max_route_min of the route's vehicle.
C4_DurationWithinMaxRouteMin ==
    Returned =>
        \A r \in DOMAIN routes :
            LET v == vehicles[RouteVehicle(r)]
            IN  v.max_route_min # None =>
                    PlanArrival(r, Len(RoutePlan(r))) - PlanArrival(r, 1)
                        <= Get(v.max_route_min)

\* travel minutes and windows as the data model has them
TravelMin(i, j) == SecondsToMinutes(table[i][j])
Window(k) == EffectiveWindow(stops[k])

SetMin(S) == CHOOSE x \in S : \A y \in S : x <= y

StartLocations == {vehicles[v].start_index : v \in DOMAIN vehicles}

\* the earliest minute a vehicle can be at location k, coming from a start
\* over locations not in `excluded`, waiting for windows to open
RECURSIVE EarliestAt(_, _)
EarliestAt(k, excluded) ==
    IF k \in StartLocations THEN Window(k)[1]
    ELSE LET preds == (Locations \ excluded) \ {k}
         IN  IF preds = {} THEN horizon + 1
             ELSE Max(Window(k)[1],
                      SetMin({EarliestAt(p, excluded \cup {k})
                                  + stops[p].service_min + TravelMin(p, k) :
                              p \in preds}))

\* the earliest minute any vehicle can arrive at stop k from any predecessor
EarliestArrival(k) ==
    SetMin({EarliestAt(p, {k}) + stops[p].service_min + TravelMin(p, k) :
            p \in Locations \ {k}})

\* travel plus service along start -> visits -> end for vehicle v
RECURSIVE LegsTime(_)
LegsTime(path) ==
    IF Len(path) < 2 THEN 0
    ELSE stops[path[1]].service_min + TravelMin(path[1], path[2])
             + LegsTime(Tail(path))

ThroughTime(v, visits) ==
    LegsTime(<<vehicles[v].start_index>> \o visits \o <<EffectiveEnd(vehicles[v])>>)

\* every trip of vehicle v that serves stop k, the round trip start -> k ->
\* end among them, takes longer than limit
EveryTripLonger(v, k, limit) ==
    \A visits \in Arrangements(Locations \ AnchorLocations) :
        k \in Range(visits) => ThroughTime(v, visits) > limit

TotalDemand == SumDemand(Locations)

RECURSIVE SumCapacity(_)
SumCapacity(V) ==
    IF V = {} THEN 0
    ELSE LET v == CHOOSE x \in V : TRUE
         IN  vehicles[v].capacity + SumCapacity(V \ {v})

\* stop k fits no vehicle: its demand exceeds the capacity, or its window
\* closes before any vehicle can arrive, or every trip that serves it takes
\* longer than the vehicle's max_route_min
CannotPlace(k) ==
    \A v \in DOMAIN vehicles :
        \/ stops[k].demand > vehicles[v].capacity
        \/ Window(k)[2] < EarliestArrival(k)
        \/ /\ vehicles[v].max_route_min # None
           /\ EveryTripLonger(v, k, Get(vehicles[v].max_route_min))

\* C5 as stated: whenever some stop fits no vehicle under the capacity,
\* time-window and duration constraints the solve returns no solution, and
\* no returned result leaves a stop off the routes.
C5_NoPartialPlans ==
    /\ (SolveReturned /\ \E k \in PlacedStops : CannotPlace(k)) => Infeasible
    /\ Returned => \A k \in PlacedStops : Occurrences(k) >= 1

C8_RoundTripOverLimitInfeasible ==
    (SolveReturned /\ \E k \in PlacedStops : \A v \in DOMAIN vehicles :
          /\ vehicles[v].max_route_min # None
          /\ EveryTripLonger(v, k, Get(vehicles[v].max_route_min)))
        => Infeasible

\* vehicle v leaves its start for a stop in the returned assignment
LeavesForAStop(v) ==
    LET m == RoutingIndexManager(Get(data))
    IN  ~IsEnd(m, Get(solution).next[Start(m, v)])

\* C15: a vehicle is in the returned list exactly when its route has an
\* intermediate stop, once, and every returned route starts at the
\* vehicle's start location and ends at its end location.
C15_ExactlyTheUsedVehicles ==
    Returned =>
        /\ \A v \in DOMAIN vehicles :
              Cardinality({r \in DOMAIN routes : RouteVehicle(r) = v})
                  = IF LeavesForAStop(v) THEN 1 ELSE 0
        /\ \A r \in DOMAIN routes :
              /\ Len(RoutePlan(r)) >= 3
              /\ PlanNode(r, 1) = vehicles[RouteVehicle(r)].start_index
              /\ PlanNode(r, Len(RoutePlan(r))) = EffectiveEnd(vehicles[RouteVehicle(r)])

C15_Witness ==
    /\ Returned
    /\ Cardinality(DOMAIN vehicles) = 2
    /\ Len(routes) = 1
    /\ RouteVehicle(1) = 1
    /\ ~LeavesForAStop(0)

\* C17 as stated: the travel time on a leg of vehicle v's route is the
\* duration multiplied by v's speed factor, so along every leg p -> q of a
\* returned route arrival(q) >= arrival(p) + service(p) + duration[p][q] *
\* speed_factor(v).
C17_TravelTimeScaledBySpeedFactor ==
    Returned =>
        \A r \in DOMAIN routes : \A j \in 1..(Len(RoutePlan(r)) - 1) :
            PlanArrival(r, j + 1) >=
                PlanArrival(r, j) + stops[PlanNode(r, j)].service_min
                    + TravelMin(PlanNode(r, j), PlanNode(r, j + 1))
                          * vehicles[RouteVehicle(r)].speed_factor

\* C19 as stated: every recorded arrival at a stop without a time window
\* is at least 0 and less than 1440.
C19_DefaultWindowHalfOpen ==
    Returned =>
        \A r \in DOMAIN routes : \A j \in DOMAIN RoutePlan(r) :
            stops[PlanNode(r, j)].tw = None =>
                0 <= PlanArrival(r, j) /\ PlanArrival(r, j) < horizon

(***************************************************************************)
(* What the claims about the server speak about.                           *)
(***************************************************************************)
\* the vehicles as the request gives them, numbered like the parsed ones
GivenVehicles ==
    LET body == Get(request).body
    IN  IF body.vehicles = None THEN <<>>
        ELSE [v \in 0..(Len(Get(body.vehicles)) - 1) |-> Get(body.vehicles)[v + 1]]

RequestIndexOutOfRange ==
    \E v \in DOMAIN GivenVehicles :
        \/ OrDefault(GivenVehicles[v].start_index, 0) \notin Locations
        \/ OrDefault(GivenVehicles[v].end_index, 0) \notin Locations

RequestNonPositiveCapacity ==
    \E v \in DOMAIN GivenVehicles :
        GivenVehicles[v].capacity # None /\ Get(GivenVehicles[v].capacity) <= 0

Rejected == pc = "idle" /\ response = Some([status |-> 400])

ExportRequest ==
    request # None /\ Get(request).op \in {"api_export_assignments", "api_export_kmlzip"}

\* C12 as stated: a request with a vehicle start or end index out of range
\* is rejected with a configuration error, in api_solve and in both
\* exports, before the matrix is built and before any search runs.
C12_IndexOutOfRangeRejected ==
    (request # None /\ RequestIndexOutOfRange) =>
        /\ matrix_calls = 0
        /\ pc \notin {"built", "unavailable", "solved", "crashed", "extracted"}
        /\ pc = "idle" => response = Some([status |-> 400])

\* C13 as stated: a request with a vehicle of non-positive capacity is
\* answered with a configuration error and no solve is started for it.
C13_NonPositiveCapacityRejected ==
    (request # None /\ RequestNonPositiveCapacity) => Rejected

\* C13, amended: a non-positive capacity in a request is not rejected but
\* raised to 1 when the vehicle is parsed, so that every run a request
\* starts has vehicles of capacity max(given, 1) >= 1.
C13_CapacityRaisedToOne ==
    (request # None /\ pc # "idle") =>
        \A v \in DOMAIN vehicles :
            /\ vehicles[v].capacity >= 1
            /\ (v \in DOMAIN GivenVehicles /\ GivenVehicles[v].capacity # None) =>
                   vehicles[v].capacity = Max(Get(GivenVehicles[v].capacity), 1)

C13_Witness ==
    /\ request # None
    /\ RequestNonPositiveCapacity
    /\ pc = "extracted"
    /\ vehicles[0].capacity = 1

\* C14: when the matrix request fails, it was made once, no data model
\* exists, the solver has not run and does not run, and the next thing that
\* happens is the 503 answer, with the cache as it was; in all three
\* handlers.
C14_MatrixFailureAnswered503 ==
    [][pc = "unavailable" =>
          /\ matrix_calls = 1
          /\ data = None
          /\ solution = None
          /\ pc' = "idle"
          /\ response' = Some([status |-> 503])
          /\ solution' = None
          /\ _LAST_SOLVE' = _LAST_SOLVE]_vars

C14_Witness ==
    /\ pc = "idle"
    /\ response = Some([status |-> 503])
    /\ ExportRequest
    /\ _LAST_SOLVE # None

\* C16 as stated: an export serves the cached routes exactly when the
\* cache holds the canonical key of its stops and vehicles, and the routes
\* it serves were never computed for other stops or vehicles.
C16_CacheServesOnlyOwnInputs ==
    ExportRequest =>
        /\ pc = "cached" =>
              /\ CacheHit(_canonical_key(stops, vehicles))
              /\ Get(data).stops = stops
              /\ Get(data).vehicles = vehicles
        /\ pc \in {"start", "built", "unavailable", "solved", "extracted"} =>
              ~CacheHit(_canonical_key(stops, vehicles))

\* stops that differ at most in the digits of a coordinate past the sixth
\* decimal
SameUpToKeyPrecision(a, b) ==
    /\ DOMAIN a = DOMAIN b
    /\ \A i \in DOMAIN a :
          /\ RoundMicro(a[i].lat) = RoundMicro(b[i].lat)
          /\ a[i].demand = b[i].demand
          /\ a[i].service_min = b[i].service_min
          /\ a[i].tw = b[i].tw

\* C16, amended: an export serves the cached routes exactly when the cache
\* holds the canonical key of its stops and vehicles, and the routes it
\* serves were computed for the same vehicles and for stops that differ at
\* most in what the key rounds away, coordinate digits past the sixth
\* decimal.
C16_CacheServesInputsOfEqualKey ==
    ExportRequest =>
        /\ pc = "cached" =>
              /\ _LAST_SOLVE # None
              /\ routes = Get(_LAST_SOLVE).routes
              /\ data = Some(Get(_LAST_SOLVE).data)
              /\ SameUpToKeyPrecision(Get(data).stops, stops)
              /\ Get(data).vehicles = vehicles
        /\ pc \in {"start", "built", "unavailable", "solved", "extracted"} =>
              \/ _LAST_SOLVE = None
              \/ ~SameUpToKeyPrecision(Get(_LAST_SOLVE).data.stops, stops)
              \/ Get(_LAST_SOLVE).data.vehicles # vehicles

C16_Witness ==
    /\ ExportRequest
    /\ pc = "cached"
    /\ Get(data).stops # stops

\* the max_route_min the request states for vehicle v, None when it states
\* none
GivenMaxRouteMin(v) ==
    IF v \in DOMAIN GivenVehicles THEN GivenVehicles[v].max_route_min ELSE None

\* C18 as stated: in the data model a vehicle without a stated maximum
\* route duration is limited by the horizon of 1440 minutes, however it was
\* created, and a vehicle with a stated maximum m by m.
C18_UnstatedLimitIsHorizon ==
    (request # None /\ pc = "built") =>
        \A v \in DOMAIN vehicles :
            Get(data).vehicle_max_route_min[v] =
                IF GivenMaxRouteMin(v) = None THEN horizon
                ELSE Get(GivenMaxRouteMin(v))

(***************************************************************************)
(* The transit of the Time dimension and the cost of an arc.               *)
(***************************************************************************)
\* C23: in every solution the solver hands back, along every arc i -> j
\* (the arcs leaving a vehicle's start and the arc of an unused vehicle
\* included) the Time cumul grows by at least duration[i][j] + service[i],
\* the service time of the node left.
C23_TransitChargesNodeLeft ==
    (pc = "solved" /\ solution # None) =>
        LET manager == RoutingIndexManager(Get(data))
            sol == Get(solution)
        IN  \A i \in 0..(manager.size - 1) :
                LET from_node == IndexToNode(manager, i)
                    to_node == IndexToNode(manager, sol.next[i])
                IN  sol.time[sol.next[i]] - sol.time[i]
                        >= TravelMin(from_node, to_node) + stops[from_node].service_min

\* a solution whose vehicle leaves its start, a depot with a service time,
\* for a stop with a longer service time and arrives after exactly the
\* travel time plus the depot's service time: nothing is charged for the
\* stop entered
C23_Witness ==
    /\ pc = "solved"
    /\ solution # None
    /\ LET manager == RoutingIndexManager(Get(data))
           sol == Get(solution)
       IN  \E v \in Vehicles(manager) :
               LET i == Start(manager, v)
                   from_node == IndexToNode(manager, i)
                   to_node == IndexToNode(manager, sol.next[i])
               IN  /\ ~IsEnd(manager, sol.next[i])
                   /\ stops[from_node].service_min > 0
                   /\ stops[to_node].service_min > stops[from_node].service_min
                   /\ sol.time[sol.next[i]] - sol.time[i]
                          = TravelMin(from_node, to_node) + stops[from_node].service_min

\* the sum over the legs j, j+1, ... of returned route r of the travel time
\* plus the service time of the leg's destination, or of its origin
RECURSIVE LegsChargingDestination(_, _)
LegsChargingDestination(r, j) ==
    IF j >= Len(RoutePlan(r)) THEN 0
    ELSE TravelMin(PlanNode(r, j), PlanNode(r, j + 1))
             + stops[PlanNode(r, j + 1)].service_min
             + LegsChargingDestination(r, j + 1)

RECURSIVE LegsChargingOrigin(_, _)
LegsChargingOrigin(r, j) ==
    IF j >= Len(RoutePlan(r)) THEN 0
    ELSE TravelMin(PlanNode(r, j), PlanNode(r, j + 1))
             + stops[PlanNode(r, j)].service_min
             + LegsChargingOrigin(r, j + 1)

\* the two sums over the returned routes r, r+1, ...
RECURSIVE RoutesChargingDestination(_)
RoutesChargingDestination(r) ==
    IF r > Len(routes) THEN 0
    ELSE LegsChargingDestination(r, 1) + RoutesChargingDestination(r + 1)

RECURSIVE RoutesChargingOrigin(_)
RoutesChargingOrigin(r) ==
    IF r > Len(routes) THEN 0
    ELSE LegsChargingOrigin(r, 1) + RoutesChargingOrigin(r + 1)

\* C24 as stated: the objective value of a returned solution is the sum
\* over all arcs (i, j) of all routes of duration[i][j] plus the service
\* time of the destination j.
C24_ObjectiveChargesDestination ==
    Returned =>
        ObjectiveValue(RoutingIndexManager(Get(data)), Get(solution))
            = RoutesChargingDestination(1)

\* C24 as the code has it: the objective value of a returned solution is the
\* sum over all arcs (i, j) of all routes of duration[i][j] plus the service
\* time of the origin i.
C24_ObjectiveChargesOrigin ==
    Returned =>
        ObjectiveValue(RoutingIndexManager(Get(data)), Get(solution))
            = RoutesChargingOrigin(1)

\* a returned route that starts at a location without a service time and
\* ends at one with a service time, so that the two sums differ
C24_Witness ==
    /\ Returned
    /\ \E r \in DOMAIN routes :
          stops[PlanNode(r, 1)].service_min
              < stops[PlanNode(r, Len(RoutePlan(r)))].service_min
    /\ RoutesChargingOrigin(1) < RoutesChargingDestination(1)

\* the minutes the vehicle of returned route r waits on the leg from its
\* j-th to its (j+1)-th node
Wait(r, j) ==
    PlanArrival(r, j + 1) - PlanArrival(r, j) - stops[PlanNode(r, j)].service_min
        - TravelMin(PlanNode(r, j), PlanNode(r, j + 1))

\* C26: in every returned route the arrival at a stop with a window is at
\* least the window's open time, and the wait on every single leg is at
\* least 0 and at most the horizon of 1440 minutes.
C26_WaitingWithinHorizon ==
    Returned =>
        \A r \in DOMAIN routes :
            /\ \A j \in DOMAIN RoutePlan(r) :
                  stops[PlanNode(r, j)].tw # None =>
                      PlanArrival(r, j) >= Get(stops[PlanNode(r, j)].tw)[1]
            /\ \A j \in 1..(Len(RoutePlan(r)) - 1) :
                  0 <= Wait(r, j) /\ Wait(r, j) <= horizon

\* a returned route whose vehicle, had it driven on without waiting, would
\* have reached a stop before its window opens: it is served, at the open
\* time, after a wait
C26_Witness ==
    /\ Returned
    /\ \E r \in DOMAIN routes : \E j \in 1..(Len(RoutePlan(r)) - 1) :
          /\ stops[PlanNode(r, j + 1)].tw # None
          /\ PlanArrival(r, j + 1) = Get(stops[PlanNode(r, j + 1)].tw)[1]
          /\ PlanArrival(r, j + 1) - Wait(r, j) < Get(stops[PlanNode(r, j + 1)].tw)[1]
          /\ PlanArrival(r, j + 1) - Wait(r, j) <= Get(stops[PlanNode(r, j + 1)].tw)[2]

(***************************************************************************)
(* The cache across requests.                                              *)
(***************************************************************************)
\* the step with which a handler answers its request
Answers == pc' = "idle" /\ (pc # "idle" \/ received' # received)

\* C27 as stated: when a handler answers after its own successful solve,
\* the cache, when set, holds the key, data and routes of that solve, and
\* no other step changes the key, data or routes the cache holds.
C27_CacheHoldsMostRecentSolve ==
    [][IF pc = "extracted" /\ Answers
       THEN _LAST_SOLVE' # None =>
                /\ Get(_LAST_SOLVE').key = _canonical_key(stops, vehicles)
                /\ Get(_LAST_SOLVE').data = Get(data)
                /\ Get(_LAST_SOLVE').routes = routes
       ELSE /\ (_LAST_SOLVE' = None) = (_LAST_SOLVE = None)
            /\ _LAST_SOLVE # None =>
                  /\ Get(_LAST_SOLVE').key = Get(_LAST_SOLVE).key
                  /\ Get(_LAST_SOLVE').data = Get(_LAST_SOLVE).data
                  /\ Get(_LAST_SOLVE').routes = Get(_LAST_SOLVE).routes]_vars

\* C28 as stated: once an /api/solve request has succeeded, every later
\* /map/latest request is answered 200 with the map of the plan the cache
\* holds, never 404.
C28_MapLatestAfterSolve ==
    (pc = "idle" /\ request # None /\ Get(request).op = "map_latest"
        /\ api_solve_succeeded) =>
        /\ Get(response).status = 200
        /\ Get(response).geojson
               = to_geojson(Get(_LAST_SOLVE).routes, Get(_LAST_SOLVE).data)

\* the answers of the failures C30 lists: 400 before any run (malformed
\* input, index out of range), 503 (matrix provider), 422 (no solution)
FailureAnswered ==
    /\ Answers
    /\ \/ pc = "idle" /\ Get(response').status = 400
       \/ pc = "unavailable" /\ Get(response').status = 503
       \/ pc = "solved" /\ Get(response').status = 422

\* C30: a step that answers a request with one of these failures leaves the
\* cache as it was, and the cache changes only when a handler answers
\* after a solve returned a solution: after its own solve, whose routes the
\* cache then holds, or on a cache hit, where only the geojson is filled in.
C30_FailedRequestLeavesCache ==
    [][/\ FailureAnswered => _LAST_SOLVE' = _LAST_SOLVE
       /\ _LAST_SOLVE' # _LAST_SOLVE =>
             /\ Answers
             /\ \/ /\ pc = "extracted"
                   /\ solution # None
                   /\ Get(_LAST_SOLVE').routes = routes
                \/ /\ pc = "cached"
                   /\ Get(_LAST_SOLVE') = [Get(_LAST_SOLVE) EXCEPT
                                              !.geojson = Get(_LAST_SOLVE').geojson]]_vars

\* a request found infeasible, or malformed, has been answered while the
\* cache holds an earlier solve
C30_Witness ==
    /\ pc = "idle"
    /\ _LAST_SOLVE # None
    /\ request # None
    /\ \/ response = Some([status |-> 422])
       \/ response = Some([status |-> 400]) /\ Get(request).body = MalformedBody

\* the route lists the solver can return for a data model
RoutesOf(d) ==
    LET manager == RoutingIndexManager(d)
    IN  {get_routes(manager, sol) : sol \in Solutions(manager)}

\* C29 as stated: an export on the cache-hit path answers from the data and
\* routes of one solve whose key is the request's key, whatever another
\* request does to _LAST_SOLVE between the key comparison and the reads.
C29_CacheHitReadsOneSolve ==
    (ExportRequest /\ pc = "cached") =>
        /\ _canonical_key(Get(data).stops, Get(data).vehicles)
               = _canonical_key(stops, vehicles)
        /\ routes \in RoutesOf(Get(data))

====
